---- MODULE Spec2Model ----
(***************************************************************************)
(* Realtime message fan-out and conversation-membership authorization of   *)
(* the chat backend (src/src/chat.ts, src/src/auth.ts).                     *)
(*                                                                         *)
(* The server is a single Node.js process: the code between two awaits of  *)
(* a handler runs without interleaving, and each await is a point where    *)
(* other handlers and socket events may run.  Every action below is one    *)
(* such uninterrupted segment.                                             *)
(***************************************************************************)
EXTENDS Integers, Sequences, FiniteSets, TLC

(* ------------------------------ bounds --------------------------------- *)
MaxReq == 2
MaxConn == 2
MaxCloseEvents == 2
MaxHist == 2
StoredRows == 600

Reqs == 1..MaxReq
Conns == 1..MaxConn
Hists == 1..MaxHist

(* ------------------------------ values --------------------------------- *)
\* JavaScript values of the optional body fields: undefined, null, a string
\* (a sequence of characters) or an object.
Undefined == [tag |-> "undefined", v |-> <<>>]
Null == [tag |-> "null", v |-> <<>>]
Str(s) == [tag |-> "string", v |-> s]
Obj(s) == [tag |-> "object", v |-> s]

\* The conversations table: immutable for this core, two participants each.
Conversations ==
  { [id |-> "c1", user_a_id |-> "u1", user_b_id |-> "u2"],
    [id |-> "c2", user_a_id |-> "u2", user_b_id |-> "u3"] }

\* Well-formed (uuid) conversation identifiers; "c9" names no conversation.
UuidStrings == {"c1", "c2", "c9"}
MessageTypes == {"text", "image", "video", "audio"}

WhitespaceChars == {" ", "\t"}

(* ------------------------------ helpers -------------------------------- *)
\* mutant: the text is not trimmed before the emptiness test
TrimNothing(s) == s

\* String.prototype.trim
RECURSIVE TrimStart(_)
TrimStart(s) ==
  IF s # <<>> /\ Head(s) \in WhitespaceChars THEN TrimStart(Tail(s)) ELSE s

RECURSIVE TrimEnd(_)
TrimEnd(s) ==
  IF s # <<>> /\ s[Len(s)] \in WhitespaceChars
  THEN TrimEnd(SubSeq(s, 1, Len(s) - 1))
  ELSE s

Trim(s) == TrimEnd(TrimStart(s))

\* JavaScript truthiness of an optional string: undefined, null and "" are falsy
Truthy(x) == x.tag = "object" \/ (x.tag = "string" /\ x.v # <<>>)

\* x ?? null
OrNull(x) == IF x.tag \in {"undefined", "null"} THEN Null ELSE x

\* SendMessageBody.safeParse(req.body).success
SendMessageBody(body) ==
  /\ body.conversationId \in UuidStrings
  /\ body.type \in MessageTypes
  /\ body.text.tag \in {"undefined", "string"}
  /\ body.mediaUrl.tag \in {"undefined", "string"}

\* mutant: the query compares the caller with user_a_id alone
isParticipantUserAOnly(conversationId, uid) ==
  \E row \in Conversations : row.id = conversationId /\ row.user_a_id = uid

\* mutant: the query tests that the conversation exists, whoever asks
isParticipantAnyUser(conversationId, uid) ==
  \E row \in Conversations : row.id = conversationId

\* the query of isParticipant evaluated on the conversations table
isParticipant(conversationId, uid) ==
  \E row \in Conversations :
    /\ row.id = conversationId
    /\ (row.user_a_id = uid \/ row.user_b_id = uid)

\* app.jwt.verify: the payload of a token the server signed, a failure otherwise
jwtVerify(token) ==
  CASE token = "jwt-u1" -> [ok |-> TRUE, uid |-> "u1"]
    [] token = "jwt-u2" -> [ok |-> TRUE, uid |-> "u2"]
    [] token = "jwt-u3" -> [ok |-> TRUE, uid |-> "u3"]
    [] OTHER -> [ok |-> FALSE, uid |-> ""]

(* ------------------------------ inputs --------------------------------- *)
\* Spec runs the whole server on the inputs that decide the interleavings;
\* SpecSend runs one send over the product of the body fields, and
\* SpecHandshake runs the connection attempts over every handshake input.
TokenInputs == {"", "expired", "jwt-u1", "jwt-u3"}
ConversationIdInputs == {"c1", "c2"}
Body(conversationId, type, text, mediaUrl, mediaMeta) ==
  [conversationId |-> conversationId, type |-> type, text |-> text,
   mediaUrl |-> mediaUrl, mediaMeta |-> mediaMeta]
Bodies ==
  { Body("c1", "text", Str(<<" ", "h", "i">>), Undefined, Undefined),
    Body("c2", "image", Undefined, Str(<<"/", "f">>), Obj(<<"mime">>)),
    Body("c1", "text", Str(<<" ", "\t">>), Undefined, Undefined) }
NoAuthorization == [scheme |-> "", credentials |-> ""]

SendTokenInputs == {"expired", "jwt-u2", "jwt-u3"}
SendBodies ==
  [conversationId : {"c1", "c9", "not-a-uuid"},
   type : {"text", "audio", "sticker"},
   text : {Undefined, Null, Str(<<>>), Str(<<" ", "\t">>), Str(<<" ", "h", "i", " ">>)},
   mediaUrl : {Undefined, Str(<<>>), Str(<<"/", "f">>)},
   mediaMeta : {Undefined, Obj(<<"mime">>)}]

HandshakeTokenInputs == {"", "expired", "jwt-u1", "jwt-u2", "jwt-u3"}
HandshakeConversationIdInputs == {"", "c1", "c2", "c9", "not-a-uuid"}
AuthorizationInputs ==
  {NoAuthorization} \cup [scheme : {"Basic", "Bearer"}, credentials : HandshakeTokenInputs]

(* ------------------------------- state --------------------------------- *)
VARIABLES
  messages,   \* the messages table, in commit order
  wsClients,  \* the registry: the array of WsClient records, by identity
  req,        \* the POST /messages requests and where their handler stands
  conn,       \* the /ws connection attempts and where their handler stands
  sent,       \* per socket, the calls of socket.send in order
  hist        \* the GET /conversations/:id/messages requests

vars == <<messages, wsClients, req, conn, sent, hist>>

NoBody ==
  [conversationId |-> "", type |-> "", text |-> Undefined, mediaUrl |-> Undefined,
   mediaMeta |-> Undefined]
NoReply == [code |-> 0, ok |-> FALSE, id |-> 0, message |-> ""]
Reply(code, message) == [code |-> code, ok |-> FALSE, id |-> 0, message |-> message]
ReplyOk(id) == [code |-> 200, ok |-> TRUE, id |-> id, message |-> ""]

\* a handler that has not started
IdleReq == [pc |-> "idle", uid |-> "", body |-> NoBody, messageId |-> 0, reply |-> NoReply]
IdleConn ==
  [pc |-> "idle", token |-> "", conversationId |-> "", uid |-> "", transport |-> "none",
   listener |-> FALSE, closeEvents |-> 0]
NoHistoryReply == [code |-> 0, message |-> "", messages |-> <<>>]
IdleHist == [pc |-> "idle", uid |-> "", conversationId |-> "", reply |-> NoHistoryReply]

Init ==
  /\ messages = <<>>
  /\ wsClients = <<>>
  /\ req = [r \in Reqs |-> IdleReq]
  /\ conn = [c \in Conns |-> IdleConn]
  /\ sent = [c \in Conns |-> <<>>]
  /\ hist = [h \in Hists |-> IdleHist]

(* ------------------------ POST /messages ------------------------------- *)
\* the row written by the insert statement; the store assigns the id
InsertRow(id, conversationId, uid, type, text, mediaUrl, mediaMeta) ==
  [id |-> id, conversation_id |-> conversationId, sender_id |-> uid, type |-> type,
   text |-> OrNull(text), media_url |-> OrNull(mediaUrl),
   media_meta |-> OrNull(mediaMeta)]

\* mutant: the event carries the submitted fields as they came, absent ones
\* included
MessageNewAsSubmitted(messageId, conversationId, uid, type, text, mediaUrl, mediaMeta) ==
  [event |-> "message:new",
   data |-> [id |-> messageId, conversationId |-> conversationId, senderId |-> uid,
             type |-> type, text |-> text, mediaUrl |-> mediaUrl,
             mediaMeta |-> mediaMeta]]

\* the event passed to socket.send
MessageNew(messageId, conversationId, uid, type, text, mediaUrl, mediaMeta) ==
  [event |-> "message:new",
   data |-> [id |-> messageId, conversationId |-> conversationId, senderId |-> uid,
             type |-> type, text |-> OrNull(text), mediaUrl |-> OrNull(mediaUrl),
             mediaMeta |-> OrNull(mediaMeta)]]

\* mutant: only the text check, no check of the media reference
ContentErrorTextOnly(type, text, mediaUrl) ==
  IF type = "text" /\ (~Truthy(text) \/ Trim(text.v) = <<>>)
  THEN "Texto obrigatorio" ELSE ""

\* the content checks after authorization: "" when they pass, else the message
ContentError(type, text, mediaUrl) ==
  IF type = "text"
  THEN IF ~Truthy(text) \/ Trim(text.v) = <<>> THEN "Texto obrigatorio" ELSE ""
  ELSE IF ~Truthy(mediaUrl) THEN "mediaUrl obrigatorio para midia" ELSE ""

\* mutant: find instead of filter, only the first matching client
RecipientsFirstOnly(clients, conversationId) ==
  LET all == SelectSeq(clients, LAMBDA c : conn[c].conversationId = conversationId)
  IN IF all = <<>> THEN <<>> ELSE <<Head(all)>>

\* mutant: no filter, every client of the registry
RecipientsUnfiltered(clients, conversationId) == clients

\* wsClients.filter((c) => c.conversationId === conversationId)
Recipients(clients, conversationId) ==
  SelectSeq(clients, LAMBDA c : conn[c].conversationId = conversationId)

\* mutant: no try/catch around send, the first throw ends the forEach
RECURSIVE SendCallsUncaught(_, _)
SendCallsUncaught(recipients, throwing) ==
  IF recipients = <<>> THEN <<>>
  ELSE IF Head(recipients) \in throwing
  THEN <<[client |-> Head(recipients), threw |-> TRUE]>>
  ELSE <<[client |-> Head(recipients), threw |-> FALSE]>>
       \o SendCallsUncaught(Tail(recipients), throwing)

\* the forEach over the recipients: the calls of socket.send it makes, in order;
\* a call that throws is caught and the loop goes on
RECURSIVE SendCalls(_, _)
SendCalls(recipients, throwing) ==
  IF recipients = <<>> THEN <<>>
  ELSE <<[client |-> Head(recipients), threw |-> Head(recipients) \in throwing]>>
       \o SendCalls(Tail(recipients), throwing)

\* requireAuth, safeParse, and the start of the authorization read
PostMessages(r, token, body) ==
  /\ req[r].pc = "idle"
  \* request slots are interchangeable: they are taken in order
  /\ IF r = 1 THEN TRUE ELSE req[r - 1].pc # "idle"
  /\ LET payload == jwtVerify(token) IN
     req' = [req EXCEPT ![r] =
       IF ~payload.ok
       THEN [@ EXCEPT !.pc = "done", !.reply = Reply(401, "Nao autenticado")]
       ELSE IF ~SendMessageBody(body)
       THEN [@ EXCEPT !.pc = "done", !.uid = payload.uid, !.body = body,
                      !.reply = Reply(400, "Dados invalidos")]
       ELSE [@ EXCEPT !.pc = "isParticipant", !.uid = payload.uid, !.body = body]]
  /\ UNCHANGED <<messages, wsClients, conn, sent, hist>>

\* mutant: the content checks run before the authorization check
PostAuthorizedContentFirst(r) ==
  /\ req[r].pc = "isParticipant"
  /\ LET b == req[r].body
         err == ContentError(b.type, b.text, b.mediaUrl) IN
     req' = [req EXCEPT ![r] =
       IF err # ""
       THEN [@ EXCEPT !.pc = "done", !.reply = Reply(400, err)]
       ELSE IF ~isParticipant(b.conversationId, req[r].uid)
       THEN [@ EXCEPT !.pc = "done", !.reply = Reply(403, "Sem acesso a esta conversa")]
       ELSE [@ EXCEPT !.pc = "insert"]]
  /\ UNCHANGED <<messages, wsClients, conn, sent, hist>>

\* isParticipant returns: 403, 400, or the insert is issued
PostAuthorized(r) ==
  /\ req[r].pc = "isParticipant"
  /\ LET b == req[r].body
         err == ContentError(b.type, b.text, b.mediaUrl) IN
     req' = [req EXCEPT ![r] =
       IF ~isParticipant(b.conversationId, req[r].uid)
       THEN [@ EXCEPT !.pc = "done", !.reply = Reply(403, "Sem acesso a esta conversa")]
       ELSE IF err # ""
       THEN [@ EXCEPT !.pc = "done", !.reply = Reply(400, err)]
       ELSE [@ EXCEPT !.pc = "insert"]]
  /\ UNCHANGED <<messages, wsClients, conn, sent, hist>>

\* mutant: a rejected insert is swallowed, the handler goes on to broadcast and
\* reply with an undefined id
PostQueryFailsSwallowed(r) ==
  /\ req[r].pc \in {"isParticipant", "insert"}
  /\ IF req[r].pc = "isParticipant"
     THEN /\ req' = [req EXCEPT ![r] =
               [@ EXCEPT !.pc = "done", !.reply = Reply(500, req[r].pc)]]
          /\ UNCHANGED sent
     ELSE /\ req' = [req EXCEPT ![r] = [@ EXCEPT !.pc = "done", !.reply = ReplyOk(0)]]
          /\ sent' = [c \in Conns |->
               IF \E i \in DOMAIN wsClients :
                    wsClients[i] = c /\ conn[c].conversationId = req[r].body.conversationId
               THEN Append(sent[c],
                      [json |-> MessageNew(0, req[r].body.conversationId, req[r].uid,
                                           req[r].body.type, req[r].body.text,
                                           req[r].body.mediaUrl, req[r].body.mediaMeta),
                       threw |-> FALSE])
               ELSE sent[c]]
  /\ UNCHANGED <<messages, wsClients, conn, hist>>

\* a query of the handler rejects: the handler throws, and the framework replies
\* 500 with the error's message
PostQueryFails(r) ==
  /\ req[r].pc \in {"isParticipant", "insert"}
  /\ req' = [req EXCEPT ![r] =
       [@ EXCEPT !.pc = "done", !.reply = Reply(500, req[r].pc)]]
  /\ UNCHANGED <<messages, wsClients, conn, sent, hist>>

\* the store commits the insert and assigns the id and the creation time, which
\* grows with every commit
InsertCommits(r) ==
  /\ req[r].pc = "insert"
  /\ LET b == req[r].body
         id == Len(messages) + 1 IN
     /\ messages' = Append(messages,
          InsertRow(id, b.conversationId, req[r].uid, b.type, b.text, b.mediaUrl,
                    b.mediaMeta) @@ [created_at |-> id])
     /\ req' = [req EXCEPT ![r] = [@ EXCEPT !.pc = "inserted", !.messageId = id]]
  /\ UNCHANGED <<wsClients, conn, sent, hist>>

\* the insert's result reaches the handler: broadcast, then reply
PostBroadcast(r, throwing) ==
  /\ req[r].pc = "inserted"
  /\ LET b == req[r].body
         messageId == req[r].messageId
         recipients == Recipients(wsClients, b.conversationId)
         calls == SendCalls(recipients, throwing)
         ev == MessageNew(messageId, b.conversationId, req[r].uid, b.type, b.text,
                          b.mediaUrl, b.mediaMeta)
         callsOn(c) == SelectSeq(calls, LAMBDA k : k.client = c) IN
     /\ throwing \subseteq {recipients[i] : i \in DOMAIN recipients}
     /\ sent' = [c \in Conns |->
          sent[c] \o [i \in DOMAIN callsOn(c) |->
                        [json |-> ev, threw |-> callsOn(c)[i].threw]]]
     /\ req' = [req EXCEPT ![r] = [@ EXCEPT !.pc = "done", !.reply = ReplyOk(messageId)]]
  /\ UNCHANGED <<messages, wsClients, conn, hist>>

(* ------------------------------ GET /ws -------------------------------- *)
\* the token of the handshake: the Bearer header's, else the query's, "" if none
HandshakeToken(authorization, queryToken) ==
  LET tokenFromHeader ==
        IF authorization.scheme = "Bearer" THEN authorization.credentials ELSE ""
  IN IF tokenFromHeader # "" THEN tokenFromHeader ELSE queryToken

\* Array.prototype.indexOf, zero-based, -1 when absent
IndexOf(clients, client) ==
  IF \E i \in DOMAIN clients : clients[i] = client
  THEN (CHOOSE i \in DOMAIN clients :
          /\ clients[i] = client
          /\ \A j \in DOMAIN clients : clients[j] = client => i <= j) - 1
  ELSE -1

\* Array.prototype.splice(start, deleteCount): a negative start counts from the end
Splice(clients, start, deleteCount) ==
  LET n == Len(clients)
      from == IF start < 0
              THEN (IF n + start < 0 THEN 0 ELSE n + start)
              ELSE (IF start > n THEN n ELSE start)
  IN SubSeq(clients, 1, from) \o SubSeq(clients, from + deleteCount + 1, n)

\* mutant: splice without the idx >= 0 guard
CloseListenerUnguarded(clients, client) ==
  Splice(clients, IndexOf(clients, client), 1)

\* mutant: the listener removes every record with the closing record's uid and
\* conversationId
CloseListenerByContent(clients, client) ==
  SelectSeq(clients, LAMBDA x :
    conn[x].uid # conn[client].uid \/ conn[x].conversationId # conn[client].conversationId)

\* the listener of the socket's close event
CloseListener(clients, client) ==
  LET idx == IndexOf(clients, client) IN
  IF idx >= 0 THEN Splice(clients, idx, 1) ELSE clients

\* connection.socket.close() and return: the attempt is over
SocketClose(c) == [IdleConn EXCEPT !.pc = "rejected", !.transport = "closed"]

\* the handler up to the await of the token verification
WsConnect(c, authorization, queryToken, queryConversationId) ==
  /\ conn[c].pc = "idle"
  \* connection slots are interchangeable: they are taken in order
  /\ IF c = 1 THEN TRUE ELSE conn[c - 1].pc # "idle"
  /\ LET token == HandshakeToken(authorization, queryToken)
         opened == [conn[c] EXCEPT !.transport = "open"] IN
     conn' = [conn EXCEPT ![c] =
       IF token = ""
       THEN SocketClose(opened)
       ELSE [opened EXCEPT !.pc = "verify", !.token = token,
                           !.conversationId = queryConversationId]]
  /\ UNCHANGED <<messages, wsClients, req, sent, hist>>

\* the verification returns; up to the await of the authorization read
WsVerified(c) ==
  /\ conn[c].pc = "verify"
  /\ LET payload == jwtVerify(conn[c].token) IN
     conn' = [conn EXCEPT ![c] =
       IF ~payload.ok THEN SocketClose(@)
       ELSE IF @.conversationId = "" THEN SocketClose(@)
       ELSE [@ EXCEPT !.pc = "isParticipant", !.uid = payload.uid]]
  /\ UNCHANGED <<messages, wsClients, req, sent, hist>>

\* mutant: a registration replays the stored messages of the conversation to
\* the new socket
WsAuthorizedReplays(c) ==
  /\ conn[c].pc = "isParticipant"
  /\ IF ~isParticipant(conn[c].conversationId, conn[c].uid)
     THEN /\ conn' = [conn EXCEPT ![c] = SocketClose(@)]
          /\ UNCHANGED <<wsClients, sent>>
     ELSE /\ wsClients' = Append(wsClients, c)
          /\ conn' = [conn EXCEPT ![c] = [@ EXCEPT !.pc = "registered", !.listener = TRUE]]
          /\ LET rows == SelectSeq(messages,
                   LAMBDA row : row.conversation_id = conn[c].conversationId) IN
             sent' = [sent EXCEPT ![c] = @ \o
               [i \in DOMAIN rows |->
                  [json |-> [event |-> "message:new",
                             data |-> [id |-> rows[i].id,
                                       conversationId |-> rows[i].conversation_id,
                                       senderId |-> rows[i].sender_id,
                                       type |-> rows[i].type, text |-> rows[i].text,
                                       mediaUrl |-> rows[i].media_url,
                                       mediaMeta |-> rows[i].media_meta]],
                   threw |-> FALSE]]]
  /\ UNCHANGED <<messages, req, hist>>

\* isParticipant returns; the client is pushed and the close listener registered
WsAuthorized(c) ==
  /\ conn[c].pc = "isParticipant"
  /\ IF ~isParticipant(conn[c].conversationId, conn[c].uid)
     THEN /\ conn' = [conn EXCEPT ![c] = SocketClose(@)]
          /\ UNCHANGED wsClients
     ELSE /\ wsClients' = Append(wsClients, c)
          /\ conn' = [conn EXCEPT ![c] = [@ EXCEPT !.pc = "registered", !.listener = TRUE]]
  /\ UNCHANGED <<messages, req, sent, hist>>

\* mutant: a plugin without an error handler, the rejection of the handler's
\* promise is dropped
ErrorHandlerMissing == {FALSE}

\* the websocket plugin is registered without options: a rejection of the
\* handler's promise goes to the plugin's default errorHandler, which destroys
\* the connection
ErrorHandlerDestroys == {TRUE}

\* the authorization read rejects: the handler throws and the plugin's
\* errorHandler decides what becomes of the socket
WsQueryFails(c, destroyed) ==
  /\ conn[c].pc = "isParticipant"
  /\ conn' = [conn EXCEPT ![c] =
       [IdleConn EXCEPT !.pc = "threw",
                        !.transport = IF destroyed THEN "closed" ELSE conn[c].transport]]
  /\ UNCHANGED <<messages, wsClients, req, sent, hist>>

\* the peer or the network closes the transport: the close event fires once
TransportCloses(c) ==
  /\ conn[c].transport = "open"
  /\ conn' = [conn EXCEPT ![c] =
       [@ EXCEPT !.transport = "closed",
                 !.closeEvents = IF conn[c].listener THEN 1 ELSE 0]]
  /\ wsClients' = IF conn[c].listener THEN CloseListener(wsClients, c) ELSE wsClients
  /\ UNCHANGED <<messages, req, sent, hist>>

\* a duplicate close event reaches the listener
DuplicateClose(c) ==
  /\ conn[c].transport = "closed"
  /\ conn[c].listener
  /\ conn[c].closeEvents >= 1
  /\ conn[c].closeEvents < MaxCloseEvents
  /\ conn' = [conn EXCEPT ![c] = [@ EXCEPT !.closeEvents = @ + 1]]
  /\ wsClients' = CloseListener(wsClients, c)
  /\ UNCHANGED <<messages, req, sent, hist>>

(* ------------------- GET /conversations/:id/messages ------------------- *)
HistoryLimit == 500

HistoryReply(code, message) == [code |-> code, message |-> message, messages |-> <<>>]
HistoryRows(rows) == [code |-> 200, message |-> "", messages |-> rows]

\* where conversation_id=$1
Where(table, conversationId) ==
  SelectSeq(table, LAMBDA row : row.conversation_id = conversationId)

\* order by created_at asc (rows of equal creation time keep their order)
RECURSIVE Merge(_, _)
Merge(a, b) ==
  IF a = <<>> THEN b
  ELSE IF b = <<>> THEN a
  ELSE LET mid == (Len(a) + 1) \div 2
           before == Len(SelectSeq(b, LAMBDA row : row.created_at < a[mid].created_at))
       IN  Merge(SubSeq(a, 1, mid - 1), SubSeq(b, 1, before))
             \o <<a[mid]>>
             \o Merge(SubSeq(a, mid + 1, Len(a)), SubSeq(b, before + 1, Len(b)))

RECURSIVE OrderByCreatedAt(_)
OrderByCreatedAt(rows) ==
  IF Len(rows) <= 1 THEN rows
  ELSE LET half == Len(rows) \div 2 IN
       Merge(OrderByCreatedAt(SubSeq(rows, 1, half)),
             OrderByCreatedAt(SubSeq(rows, half + 1, Len(rows))))

\* a select without its limit clause
LimitNone(rows, n) == rows

\* limit n
Limit(rows, n) == SubSeq(rows, 1, IF Len(rows) < n THEN Len(rows) ELSE n)

\* the selected columns under their aliases
Columns(row) ==
  [id |-> row.id, senderId |-> row.sender_id, type |-> row.type, text |-> row.text,
   mediaUrl |-> row.media_url, mediaMeta |-> row.media_meta,
   createdAt |-> row.created_at]

SelectMessages(table, conversationId) ==
  LET rows == Limit(OrderByCreatedAt(Where(table, conversationId)), HistoryLimit) IN
  [i \in 1..Len(rows) |-> Columns(rows[i])]

\* the route up to the authorization read: requireAuth, then the handler's start
GetMessages(h, token, conversationId) ==
  /\ hist[h].pc = "idle"
  /\ IF h = 1 THEN TRUE ELSE hist[h - 1].pc # "idle"
  /\ LET payload == jwtVerify(token) IN
     hist' = [hist EXCEPT ![h] =
       IF ~payload.ok
       THEN [@ EXCEPT !.pc = "done", !.reply = HistoryReply(401, "Nao autenticado")]
       ELSE [@ EXCEPT !.pc = "isParticipant", !.uid = payload.uid,
                      !.conversationId = conversationId]]
  /\ UNCHANGED <<messages, wsClients, req, conn, sent>>

\* a history handler that answers a conversation nobody has with 404
GetAuthorizedNotFound(h) ==
  /\ hist[h].pc = "isParticipant"
  /\ hist' = [hist EXCEPT ![h] =
       IF \A row \in Conversations : row.id # hist[h].conversationId
       THEN [@ EXCEPT !.pc = "done", !.reply = HistoryReply(404, "Conversa inexistente")]
       ELSE IF ~isParticipant(hist[h].conversationId, hist[h].uid)
       THEN [@ EXCEPT !.pc = "done",
                      !.reply = HistoryReply(403, "Sem acesso a esta conversa")]
       ELSE [@ EXCEPT !.pc = "select"]]
  /\ UNCHANGED <<messages, wsClients, req, conn, sent>>

\* the authorization read returns: 403, or the select is issued
GetAuthorized(h) ==
  /\ hist[h].pc = "isParticipant"
  /\ hist' = [hist EXCEPT ![h] =
       IF ~isParticipant(hist[h].conversationId, hist[h].uid)
       THEN [@ EXCEPT !.pc = "done",
                      !.reply = HistoryReply(403, "Sem acesso a esta conversa")]
       ELSE [@ EXCEPT !.pc = "select"]]
  /\ UNCHANGED <<messages, wsClients, req, conn, sent>>

\* the select returns its rows and the handler replies with them
GetSelected(h) ==
  /\ hist[h].pc = "select"
  /\ hist' = [hist EXCEPT ![h] =
       [@ EXCEPT !.pc = "done",
                 !.reply = HistoryRows(SelectMessages(messages, hist[h].conversationId))]]
  /\ UNCHANGED <<messages, wsClients, req, conn, sent>>

\* a query of the history handler rejects: the framework answers 500
GetQueryFails(h) ==
  /\ hist[h].pc \in {"isParticipant", "select"}
  /\ hist' = [hist EXCEPT ![h] =
       [@ EXCEPT !.pc = "done", !.reply = HistoryReply(500, hist[h].pc)]]
  /\ UNCHANGED <<messages, wsClients, req, conn, sent>>

(* --------------------------- specification ----------------------------- *)
Next ==
  \/ \E r \in Reqs, token \in TokenInputs, body \in Bodies : PostMessages(r, token, body)
  \/ \E r \in Reqs : PostAuthorized(r)
  \/ \E r \in Reqs : PostQueryFails(r)
  \/ \E r \in Reqs : InsertCommits(r)
  \/ \E r \in Reqs, throwing \in SUBSET Conns : PostBroadcast(r, throwing)
  \/ \E c \in Conns, queryToken \in TokenInputs,
        queryConversationId \in ConversationIdInputs :
       WsConnect(c, NoAuthorization, queryToken, queryConversationId)
  \/ \E c \in Conns : WsVerified(c)
  \/ \E c \in Conns : WsAuthorized(c)
  \/ \E c \in Conns, destroyed \in ErrorHandlerDestroys : WsQueryFails(c, destroyed)
  \/ \E c \in Conns : TransportCloses(c)
  \/ \E c \in Conns : DuplicateClose(c)

Spec == Init /\ [][Next]_vars

\* one send at a time over every shape of body, beside registered connections
NextSend ==
  \/ \E token \in SendTokenInputs, body \in SendBodies : PostMessages(1, token, body)
  \/ PostAuthorized(1)
  \/ PostQueryFails(1)
  \/ InsertCommits(1)
  \/ \E throwing \in SUBSET Conns : PostBroadcast(1, throwing)
  \/ \E c \in Conns, queryConversationId \in ConversationIdInputs :
       WsConnect(c, NoAuthorization, "jwt-u1", queryConversationId)
  \/ \E c \in Conns : WsVerified(c)
  \/ \E c \in Conns : WsAuthorized(c)
  \/ \E c \in Conns : TransportCloses(c)

SpecSend == Init /\ [][NextSend]_vars

\* the connection attempts alone, over every handshake input
NextHandshake ==
  \/ \E c \in Conns, authorization \in AuthorizationInputs,
        queryToken \in HandshakeTokenInputs,
        queryConversationId \in HandshakeConversationIdInputs :
       WsConnect(c, authorization, queryToken, queryConversationId)
  \/ \E c \in Conns : WsVerified(c)
  \/ \E c \in Conns : WsAuthorized(c)
  \/ \E c \in Conns, destroyed \in ErrorHandlerDestroys : WsQueryFails(c, destroyed)
  \/ \E c \in Conns : TransportCloses(c)
  \/ \E c \in Conns : DuplicateClose(c)

SpecHandshake == Init /\ [][NextHandshake]_vars

\* the history fetches beside one send, over a store that already holds
\* messages: none, or more of one conversation than a fetch returns
StoredMessages(n) ==
  [i \in 1..n |->
     LET conversationId == IF i % 7 = 0 THEN "c2" ELSE "c1" IN
     InsertRow(i, conversationId, IF i % 2 = 0 THEN "u2" ELSE IF i % 7 = 0 THEN "u3" ELSE "u1",
               "text", Str(<<"m">>), Undefined, Undefined) @@ [created_at |-> i]]

HistoryTokenInputs == {"expired", "jwt-u1", "jwt-u3"}
HistoryConversationIdInputs == {"c1", "c2", "c9", "not-a-uuid"}
HistoryBodies == Bodies \cup {Body("c9", "text", Str(<<" ", "h", "i">>), Undefined, Undefined)}

InitHistory ==
  /\ messages \in {StoredMessages(0), StoredMessages(StoredRows)}
  /\ wsClients = <<>>
  /\ req = [r \in Reqs |-> IdleReq]
  /\ conn = [c \in Conns |-> IdleConn]
  /\ sent = [c \in Conns |-> <<>>]
  /\ hist = [h \in Hists |-> IdleHist]

NextHistory ==
  \/ \E h \in Hists, token \in HistoryTokenInputs,
        conversationId \in HistoryConversationIdInputs :
       GetMessages(h, token, conversationId)
  \/ \E h \in Hists : GetAuthorized(h)
  \/ \E h \in Hists : GetSelected(h)
  \/ \E h \in Hists : GetQueryFails(h)
  \/ \E token \in HistoryTokenInputs, body \in HistoryBodies : PostMessages(1, token, body)
  \/ PostAuthorized(1)
  \/ PostQueryFails(1)
  \/ InsertCommits(1)
  \/ PostBroadcast(1, {})

SpecHistory == InitHistory /\ [][NextHistory]_vars

\* the connection attempts under the event loop's scheduling: a handler that
\* waits for the verification or for the authorization read is resumed once the
\* awaited promise settles, by its result or by its rejection
FairSpecHandshake ==
  /\ Init
  /\ [][NextHandshake]_vars
  /\ \A c \in Conns :
       /\ WF_vars(WsVerified(c))
       /\ WF_vars(WsAuthorized(c)
                    \/ \E destroyed \in ErrorHandlerDestroys : WsQueryFails(c, destroyed))

(* ------------------------------- claims -------------------------------- *)
InRegistry(c) == \E i \in DOMAIN wsClients : wsClients[i] = c

\* the calls of send on a socket that carried the event of message id
CallsFor(calls, id) == SelectSeq(calls, LAMBDA k : k.json.data.id = id)

\* the step in which request r runs its broadcast pass
BroadcastStep(r) == req[r].pc = "inserted" /\ req'[r].pc = "done"

\* C1: a broadcast pass calls send exactly once, with the message:new event of
\* the persisted message, on every connection that is in the registry for the
\* message's conversation when the pass runs, the sender's own included.
C1_ExactlyOncePerRegistered ==
  [][\A r \in Reqs : BroadcastStep(r) =>
       \A c \in Conns :
         (InRegistry(c) /\ conn[c].conversationId = req[r].body.conversationId) =>
           /\ CallsFor(sent[c], req[r].messageId) = <<>>
           /\ Len(CallsFor(sent'[c], req[r].messageId)) = 1
           /\ Len(sent'[c]) = Len(sent[c]) + 1
           /\ sent'[c][Len(sent'[c])].json.event = "message:new"
           /\ sent'[c][Len(sent'[c])].json.data.id = req[r].messageId]_vars

\* two connections of one conversation, one of them the sender's own, each called
\* once for the same message
C1_Witness ==
  \E c, d \in Conns :
    /\ c # d
    /\ Len(sent[c]) = 1 /\ Len(sent[d]) = 1
    /\ sent[c][1].json.data.id = sent[d][1].json.data.id
    /\ conn[c].uid = sent[c][1].json.data.senderId

\* C2: no socket is ever called with the event of a message persisted for a
\* conversation other than the one its connection is registered with.
C2_NoCrossConversation ==
  \A c \in Conns : \A i \in DOMAIN sent[c] :
    LET id == sent[c][i].json.data.id IN
    /\ id \in DOMAIN messages
    /\ messages[id].conversation_id = conn[c].conversationId

\* a connection registered for c1 before another one that received a message of
\* c2, itself never called
C2_Witness ==
  \E i, j \in DOMAIN wsClients :
    /\ i < j
    /\ conn[wsClients[i]].conversationId = "c1"
    /\ sent[wsClients[i]] = <<>>
    /\ sent[wsClients[j]] # <<>>
    /\ sent[wsClients[j]][1].json.data.conversationId = "c2"

\* the two participants of a conversation, as the conversations table has them
ParticipantsOf(conversationId) ==
  UNION {{row.user_a_id, row.user_b_id} :
           row \in {x \in Conversations : x.id = conversationId}}
ConversationExists(conversationId) == \E row \in Conversations : row.id = conversationId

\* the step in which the handler of request r goes on after its authorization read
AuthorizationStep(r) == req[r].pc = "isParticipant" /\ req'[r] # req[r]

\* the authorization read itself failed (a storage error, reply 500)
AuthorizationReadFailed(reply) == reply = Reply(500, "isParticipant")

\* C3: a well-formed send on an existing conversation by a user who is neither
\* of its participants is answered 403, no row is written and no socket is called
\* (the only other outcome is the authorization read itself failing, which also
\* writes nothing and calls nothing).
C3_NonParticipantForbidden ==
  [][\A r \in Reqs :
       (/\ AuthorizationStep(r)
        /\ ConversationExists(req[r].body.conversationId)
        /\ req[r].uid \notin ParticipantsOf(req[r].body.conversationId)) =>
         /\ messages' = messages
         /\ sent' = sent
         /\ req'[r].pc = "done"
         /\ \/ req'[r].reply.code = 403 /\ ~req'[r].reply.ok
            \/ AuthorizationReadFailed(req'[r].reply)]_vars

\* a stranger to c1 was answered 403 while a connection of c1 was registered,
\* whose socket was never called
C3_Witness ==
  \E r \in Reqs, c \in Conns :
    /\ req[r].pc = "done" /\ req[r].reply.code = 403
    /\ req[r].body.conversationId = "c1" /\ req[r].uid \notin ParticipantsOf("c1")
    /\ InRegistry(c) /\ conn[c].conversationId = "c1" /\ sent[c] = <<>>
    /\ messages = <<>>

\* text that is absent, empty or made of whitespace only
BlankText(text) ==
  text.tag # "string" \/ \A i \in DOMAIN text.v : text.v[i] \in WhitespaceChars
\* a media reference that is absent or empty
NoMediaUrl(mediaUrl) == mediaUrl.tag # "string" \/ Len(mediaUrl.v) = 0

\* C4: a participant's send of type text with blank text, or of another type
\* without a media reference, is answered 400, no row is written and no socket
\* is called.
C4_InvalidContentRejected ==
  [][\A r \in Reqs :
       (/\ AuthorizationStep(r)
        /\ req[r].uid \in ParticipantsOf(req[r].body.conversationId)
        /\ IF req[r].body.type = "text"
           THEN BlankText(req[r].body.text)
           ELSE NoMediaUrl(req[r].body.mediaUrl)) =>
         /\ messages' = messages
         /\ sent' = sent
         /\ req'[r].pc = "done"
         /\ \/ req'[r].reply.code = 400 /\ ~req'[r].reply.ok
            \/ AuthorizationReadFailed(req'[r].reply)]_vars

\* a participant's whitespace-only text was answered 400 beside a registered
\* connection of the conversation, whose socket was never called
C4_Witness ==
  \E r \in Reqs, c \in Conns :
    /\ req[r].pc = "done" /\ req[r].reply.code = 400
    /\ req[r].uid \in ParticipantsOf(req[r].body.conversationId)
    /\ req[r].body.type = "text"
    /\ req[r].body.text.tag = "string" /\ Len(req[r].body.text.v) > 0
    /\ InRegistry(c) /\ conn[c].conversationId = req[r].body.conversationId
    /\ sent[c] = <<>> /\ messages = <<>>

\* a send that must succeed: a participant, a recognized type, well-typed fields
\* and the content its type needs
ValidSend(uid, body) ==
  /\ uid \in ParticipantsOf(body.conversationId)
  /\ body.type \in {"text", "image", "video", "audio"}
  /\ body.text.tag \in {"undefined", "string"}
  /\ body.mediaUrl.tag \in {"undefined", "string"}
  /\ IF body.type = "text" THEN ~BlankText(body.text) ELSE ~NoMediaUrl(body.mediaUrl)

\* the requests whose insert was committed
Persisted ==
  {r \in Reqs : req[r].pc = "inserted" \/ (req[r].pc = "done" /\ req[r].reply.ok)}

\* C5: a valid send by a participant passes the authorization check, writes
\* exactly one row, and is answered {ok: true, id} with the id of that row
\* (unless a query of the store fails, the only other outcome).
C5_ValidSendSucceeds ==
  /\ \A r \in Reqs :
       (req[r].pc = "done" /\ req[r].uid # "" /\ ValidSend(req[r].uid, req[r].body)) =>
         \/ req[r].reply = ReplyOk(req[r].messageId)
         \/ req[r].reply.code = 500
  /\ Len(messages) = Cardinality(Persisted)
  /\ \A r \in Persisted :
       /\ req[r].messageId \in DOMAIN messages
       /\ Cardinality({i \in DOMAIN messages : messages[i].id = req[r].messageId}) = 1
       /\ messages[req[r].messageId].id = req[r].messageId
       /\ messages[req[r].messageId].conversation_id = req[r].body.conversationId
       /\ messages[req[r].messageId].sender_id = req[r].uid
       /\ \A q \in Persisted : q # r => req[q].messageId # req[r].messageId

\* the second participant's media send was answered ok with the id of the one row
C5_Witness ==
  \E r \in Reqs :
    /\ req[r].pc = "done" /\ req[r].reply.ok
    /\ req[r].body.type = "audio"
    /\ req[r].uid = "u2"
    /\ Len(messages) = 1 /\ messages[1].id = req[r].reply.id

\* C6: a connection that receives the events of two messages of its conversation
\* receives them in the order the messages were persisted (ids are assigned in
\* commit order).
C6_DeliveredInPersistOrder ==
  \A c \in Conns : \A i, j \in DOMAIN sent[c] :
    i < j => sent[c][i].json.data.id < sent[c][j].json.data.id

\* C7: when a send of the broadcast pass throws, every other connection
\* registered for the conversation is still called once, the throwing one is not
\* called again, the sender is answered {ok: true, id} and the row stays.
C7_SendFailureIsolated ==
  [][\A r \in Reqs : \A c \in Conns :
       (/\ BroadcastStep(r)
        /\ Len(sent'[c]) > Len(sent[c])
        /\ sent'[c][Len(sent'[c])].threw) =>
         /\ Len(sent'[c]) = Len(sent[c]) + 1
         /\ \A d \in Conns :
              (InRegistry(d) /\ conn[d].conversationId = req[r].body.conversationId) =>
                /\ Len(sent'[d]) = Len(sent[d]) + 1
                /\ sent'[d][Len(sent'[d])].json.data.id = req[r].messageId
         /\ req'[r].reply = ReplyOk(req[r].messageId)
         /\ messages' = messages
         /\ messages[req[r].messageId].id = req[r].messageId]_vars

\* the send on the first registered connection threw, the one on the next was
\* made for the same message, and the sender was answered ok
C7_Witness ==
  \E r \in Reqs :
    /\ Len(wsClients) >= 2
    /\ req[r].pc = "done" /\ req[r].reply.ok
    /\ Len(sent[wsClients[1]]) = 1 /\ sent[wsClients[1]][1].threw
    /\ sent[wsClients[1]][1].json.data.id = req[r].reply.id
    /\ Len(sent[wsClients[2]]) = 1 /\ ~sent[wsClients[2]][1].threw
    /\ sent[wsClients[2]][1].json.data.id = req[r].reply.id
    /\ Len(messages) >= req[r].reply.id

\* the step in which the insert of request r is rejected by the store
InsertFailedStep(r) ==
  req[r].pc = "insert" /\ req'[r].pc = "done" /\ messages' = messages

\* C8: when the insert fails the send fails as a whole (no ok reply) and no
\* socket is called; every event ever sent is that of a row of the store.
C8_NoBroadcastWithoutRow ==
  [][/\ \A r \in Reqs : InsertFailedStep(r) =>
          /\ ~req'[r].reply.ok /\ req'[r].reply.code = 500
          /\ sent' = sent
     /\ \A c \in Conns : \A i \in DOMAIN sent'[c] :
          /\ sent'[c][i].json.data.id \in DOMAIN messages'
          /\ messages'[sent'[c][i].json.data.id].id = sent'[c][i].json.data.id]_vars

\* an insert failed beside a registered connection of the conversation: the
\* reply is the error, the store is empty and the socket was never called
C8_Witness ==
  \E r \in Reqs, c \in Conns :
    /\ req[r].pc = "done" /\ req[r].reply = Reply(500, "insert")
    /\ InRegistry(c) /\ conn[c].conversationId = req[r].body.conversationId
    /\ sent[c] = <<>> /\ messages = <<>>

\* the registry without one record, the others in the same order
Without(clients, client) == SelectSeq(clients, LAMBDA x : x # client)

\* the step in which the close listener of connection c runs
TeardownStep(c) == conn'[c].closeEvents > conn[c].closeEvents

\* C9: the first run of the teardown removes exactly the connection's record,
\* and a second run leaves the registry as the first left it.
C9_TeardownIdempotent ==
  [][\A c \in Conns : TeardownStep(c) =>
       /\ wsClients' = Without(wsClients, c)
       /\ conn[c].closeEvents >= 1 => wsClients' = wsClients]_vars

\* the teardown of one connection ran twice while another was registered
C9_Witness ==
  \E c, d \in Conns :
    /\ c # d
    /\ conn[c].closeEvents = 2 /\ ~InRegistry(c)
    /\ InRegistry(d)

\* C10: a record is in the registry only after the four checks passed in order
\* (token present, token verified, conversationId present, caller a participant);
\* an attempt that fails a check is terminated and is never in the registry.
C10_RegisteredOnlyAfterChecks ==
  [][\A c \in Conns :
       /\ InRegistry(c)' =>
            /\ conn'[c].token # "" /\ jwtVerify(conn'[c].token).ok
            /\ conn'[c].uid = jwtVerify(conn'[c].token).uid
            /\ conn'[c].conversationId # ""
            /\ conn'[c].uid \in ParticipantsOf(conn'[c].conversationId)
       /\ (conn[c].pc = "idle" /\ conn'[c].pc # "idle") =>
            \/ conn'[c].pc = "rejected"
            \/ conn'[c].pc = "verify" /\ conn'[c].token # ""
       /\ (conn[c].pc = "verify" /\ conn'[c].pc # "verify") =>
            IF jwtVerify(conn[c].token).ok /\ conn[c].conversationId # ""
            THEN conn'[c].pc = "isParticipant"
            ELSE conn'[c].pc = "rejected"
       /\ (conn[c].pc = "isParticipant" /\ conn'[c].pc = "registered") =>
            conn[c].uid \in ParticipantsOf(conn[c].conversationId)
       /\ (/\ conn[c].pc = "isParticipant" /\ conn'[c].pc # "isParticipant"
           /\ conn[c].uid \notin ParticipantsOf(conn[c].conversationId)) =>
            conn'[c].pc \in {"rejected", "threw"}
       /\ conn[c].pc # "isParticipant" => (InRegistry(c)' => InRegistry(c))
       /\ conn'[c].pc = "rejected" => conn'[c].transport = "closed" /\ ~InRegistry(c)'
       /\ conn[c].pc = "rejected" => conn'[c].pc = "rejected"]_vars

\* one attempt passed the four checks and is registered while another failed a
\* check: it is terminated and not in the registry
C10_Witness ==
  \E c, d \in Conns :
    /\ InRegistry(c) /\ conn[c].pc = "registered" /\ conn[c].transport = "open"
    /\ conn[d].pc = "rejected" /\ conn[d].transport = "closed" /\ ~InRegistry(d)

\* C11: the record of a connection is in the registry only while its transport
\* is alive: once the transport has closed, whenever that happens, the record is
\* not in the registry.
C11_NoRecordOfClosedTransport ==
  \A c \in Conns : conn[c].transport = "closed" => ~InRegistry(c)

\* the history request h has been answered after authentication
HistoryAnswered(h) == hist[h].pc = "done" /\ hist[h].uid # ""

\* a query of the history handler itself failed (a storage error, reply 500)
HistoryReadFailed(reply) ==
  reply \in {HistoryReply(500, "isParticipant"), HistoryReply(500, "select")}

\* C12: a history fetch on conversation C by a participant returns at most 500
\* messages, each a stored message of C, none twice, in ascending order of
\* creation time; a fetch by a user who is not a participant of C is answered 403
\* with no messages (the only other outcome is a query of the handler failing,
\* which returns no messages either).
C12_HistoryFetch ==
  \A h \in Hists :
    HistoryAnswered(h) =>
      LET reply == hist[h].reply
          rows == reply.messages
          C == hist[h].conversationId IN
      IF hist[h].uid \in ParticipantsOf(C)
      THEN \/ HistoryReadFailed(reply)
           \/ /\ reply.code = 200
              /\ Len(rows) <= 500
              /\ \A i \in DOMAIN rows :
                   /\ rows[i].id \in DOMAIN messages
                   /\ LET row == messages[rows[i].id] IN
                      /\ row.conversation_id = C
                      /\ rows[i] = [id |-> row.id, senderId |-> row.sender_id,
                                    type |-> row.type, text |-> row.text,
                                    mediaUrl |-> row.media_url,
                                    mediaMeta |-> row.media_meta,
                                    createdAt |-> row.created_at]
              /\ \A i \in 1..(Len(rows) - 1) : rows[i].createdAt <= rows[i + 1].createdAt
              /\ Cardinality({rows[i].id : i \in DOMAIN rows}) = Len(rows)
      ELSE /\ rows = <<>>
           /\ \/ reply = HistoryReply(403, "Sem acesso a esta conversa")
              \/ reply = HistoryReply(500, "isParticipant")

\* a participant got the 500 oldest of more than 500 messages while a
\* non-participant of the same conversation was refused
C12_Witness ==
  \E h, k \in Hists :
    /\ HistoryAnswered(h) /\ HistoryAnswered(k)
    /\ hist[h].conversationId = "c1" /\ hist[h].uid = "u1"
    /\ hist[h].reply.code = 200 /\ Len(hist[h].reply.messages) = 500
    /\ Len(Where(messages, "c1")) > 500
    /\ hist[k].conversationId = "c1" /\ hist[k].uid = "u3"
    /\ hist[k].reply = HistoryReply(403, "Sem acesso a esta conversa")

\* the step in which the history handler h goes on after its authorization read
HistoryAuthorizationStep(h) == hist[h].pc = "isParticipant" /\ hist'[h] # hist[h]

\* the caller is not a participant of a conversation that exists
Stranger(conversationId, uid) ==
  ConversationExists(conversationId) /\ uid \notin ParticipantsOf(conversationId)

\* C13: the authorization check is false, not an error, for a conversation that
\* does not exist; a send or a history fetch on such a conversation is answered
\* with the very 403 response a non-participant of an existing conversation gets
\* and leaves the store, the registry and the sockets as they were (the only other
\* outcome is the authorization read itself failing).
C13_NoExistenceLeak ==
  [][/\ \A conversationId \in UuidStrings, uid \in {"u1", "u2", "u3"} :
          ~ConversationExists(conversationId) => isParticipant(conversationId, uid) = FALSE
     /\ \A r \in Reqs :
          (AuthorizationStep(r) /\ ~ConversationExists(req[r].body.conversationId)) =>
            /\ UNCHANGED <<messages, wsClients, sent>>
            /\ req'[r].pc = "done"
            /\ \/ req'[r].reply = Reply(403, "Sem acesso a esta conversa")
               \/ AuthorizationReadFailed(req'[r].reply)
     /\ \A h \in Hists :
          (HistoryAuthorizationStep(h) /\ ~ConversationExists(hist[h].conversationId)) =>
            /\ UNCHANGED <<messages, wsClients, sent>>
            /\ hist'[h].pc = "done"
            /\ \/ hist'[h].reply = HistoryReply(403, "Sem acesso a esta conversa")
               \/ HistoryReadFailed(hist'[h].reply)
     /\ \A h, k \in Hists :
          (/\ HistoryAnswered(h)' /\ HistoryAnswered(k)'
           /\ ~ConversationExists(hist'[h].conversationId)
           /\ Stranger(hist'[k].conversationId, hist'[k].uid)
           /\ ~HistoryReadFailed(hist'[h].reply)
           /\ ~HistoryReadFailed(hist'[k].reply)) =>
            hist'[h].reply = hist'[k].reply
     /\ \A r \in Reqs, k \in Hists :
          (/\ req'[r].pc = "done" /\ req'[r].body # NoBody /\ req'[r].reply.code # 400
           /\ HistoryAnswered(k)'
           /\ ~ConversationExists(req'[r].body.conversationId)
           /\ Stranger(hist'[k].conversationId, hist'[k].uid)
           /\ ~AuthorizationReadFailed(req'[r].reply)
           /\ ~HistoryReadFailed(hist'[k].reply)) =>
            /\ req'[r].reply.code = hist'[k].reply.code
            /\ req'[r].reply.message = hist'[k].reply.message]_vars

\* a send and a history fetch on a conversation nobody has were both answered
\* 403, as was the fetch of a stranger to a conversation that exists, and nothing
\* was written
C13_Witness ==
  \E h, k \in Hists :
    /\ HistoryAnswered(h) /\ hist[h].conversationId = "c9" /\ hist[h].reply.code = 403
    /\ HistoryAnswered(k) /\ Stranger(hist[k].conversationId, hist[k].uid)
    /\ hist[k].reply = hist[h].reply
    /\ req[1].pc = "done" /\ req[1].body # NoBody /\ req[1].body.conversationId = "c9"
    /\ req[1].reply = Reply(403, "Sem acesso a esta conversa")
    /\ messages = <<>>

\* the first check fails: the conversation id is not a uuid or the type is not
\* one of the four
Malformed(body) ==
  body.conversationId \notin {"c1", "c2", "c9"}
    \/ body.type \notin {"text", "image", "video", "audio"}

\* the content the type needs is missing
ContentMissing(body) ==
  IF body.type = "text" THEN BlankText(body.text) ELSE NoMediaUrl(body.mediaUrl)

\* the step in which the handler of request r starts
StartStep(r) == req[r].pc = "idle" /\ req'[r].pc # "idle"

\* C14: the checks of a send run in the order shape, authorization, text, media
\* and the first that fails decides: a malformed request of an authenticated
\* caller is answered 400 at once, without the authorization read being issued;
\* an authorization read is only ever issued for a well-formed request; a
\* non-participant is answered 403 even when the text is blank or the media
\* reference is missing; a participant's blank text is answered "Texto
\* obrigatorio" and a missing media reference "mediaUrl obrigatorio para midia".
C14_FailFastOrder ==
  [][\A r \in Reqs :
       /\ (StartStep(r) /\ req'[r].uid # "" /\ Malformed(req'[r].body)) =>
            /\ req'[r].pc = "done"
            /\ req'[r].reply = Reply(400, "Dados invalidos")
       /\ req'[r].pc = "isParticipant" => ~Malformed(req'[r].body)
       /\ (/\ AuthorizationStep(r)
           /\ req[r].uid \notin ParticipantsOf(req[r].body.conversationId)
           /\ ContentMissing(req[r].body)) =>
            /\ req'[r].pc = "done"
            /\ \/ req'[r].reply = Reply(403, "Sem acesso a esta conversa")
               \/ AuthorizationReadFailed(req'[r].reply)
       /\ (/\ AuthorizationStep(r)
           /\ req[r].uid \in ParticipantsOf(req[r].body.conversationId)
           /\ ContentMissing(req[r].body)) =>
            /\ req'[r].pc = "done"
            /\ \/ req'[r].reply =
                    Reply(400, IF req[r].body.type = "text" THEN "Texto obrigatorio"
                               ELSE "mediaUrl obrigatorio para midia")
               \/ AuthorizationReadFailed(req'[r].reply)]_vars

\* a stranger to c1 who sent a whitespace-only text was answered 403, not 400
C14_Witness ==
  /\ req[1].pc = "done"
  /\ req[1].uid = "u3" /\ req[1].body.conversationId = "c1"
  /\ req[1].body.type = "text" /\ req[1].body.text = Str(<<" ", "\t">>)
  /\ req[1].reply = Reply(403, "Sem acesso a esta conversa")

\* C15: every row of the message store of type text has a text that is not empty
\* after trimming, every row of type image, video or audio has a media reference,
\* and the sender of every row is a participant of the row's conversation.
C15_StoreInvariant ==
  \A i \in DOMAIN messages :
    LET row == messages[i] IN
    /\ row.type = "text" =>
         /\ row.text.tag = "string"
         /\ \E k \in DOMAIN row.text.v : row.text.v[k] \notin {" ", "\t"}
    /\ row.type \in {"image", "video", "audio"} =>
         /\ row.media_url.tag = "string"
         /\ Len(row.media_url.v) > 0
    /\ row.type \in {"text", "image", "video", "audio"}
    /\ \E conversation \in Conversations :
         /\ conversation.id = row.conversation_id
         /\ row.sender_id \in {conversation.user_a_id, conversation.user_b_id}

\* a text padded with whitespace was stored as sent
C15_Witness ==
  \E i \in DOMAIN messages :
    /\ messages[i].type = "text"
    /\ messages[i].text = Str(<<" ", "h", "i", " ">>)
    /\ messages[i].sender_id = "u2" /\ messages[i].conversation_id = "c1"

\* an audio message was stored with its media reference and no text
C15_WitnessMedia ==
  \E i \in DOMAIN messages :
    /\ messages[i].type = "audio"
    /\ messages[i].media_url = Str(<<"/", "f">>)
    /\ messages[i].text = Null

\* a submitted optional value as the claim has it stored and sent: null when absent
NullWhenAbsent(value) == IF value.tag \in {"undefined", "null"} THEN Null ELSE value

\* C16: every event passed to a socket is {event: "message:new", data} where
\* data.id is the id the insert returned to the sending request and the id of a
\* stored row, conversationId and type are the request's, senderId is the
\* authenticated caller, text, mediaUrl and mediaMeta are the submitted values or
\* null when absent, and every one of these fields equals the stored row's.
C16_EventEqualsRow ==
  \A c \in Conns : \A i \in DOMAIN sent[c] :
    LET ev == sent[c][i].json IN
    /\ DOMAIN ev = {"event", "data"}
    /\ ev.event = "message:new"
    /\ DOMAIN ev.data =
         {"id", "conversationId", "senderId", "type", "text", "mediaUrl", "mediaMeta"}
    /\ ev.data.id \in DOMAIN messages
    /\ LET row == messages[ev.data.id] IN
       /\ row.id = ev.data.id
       /\ row.conversation_id = ev.data.conversationId
       /\ row.sender_id = ev.data.senderId
       /\ row.type = ev.data.type
       /\ row.text = ev.data.text
       /\ row.media_url = ev.data.mediaUrl
       /\ row.media_meta = ev.data.mediaMeta
    /\ \E r \in Reqs :
         /\ req[r].pc = "done" /\ req[r].reply = ReplyOk(ev.data.id)
         /\ ev.data.conversationId = req[r].body.conversationId
         /\ ev.data.type = req[r].body.type
         /\ ev.data.senderId = req[r].uid
         /\ ev.data.text = NullWhenAbsent(req[r].body.text)
         /\ ev.data.mediaUrl = NullWhenAbsent(req[r].body.mediaUrl)
         /\ ev.data.mediaMeta = NullWhenAbsent(req[r].body.mediaMeta)

\* a registered connection received the event of an audio message sent without
\* text and without meta: both are null in the event and in the row
C16_Witness ==
  \E c \in Conns :
    /\ Len(sent[c]) = 1
    /\ sent[c][1].json.data.type = "audio"
    /\ req[1].body.text = Undefined /\ req[1].body.mediaMeta = Undefined
    /\ sent[c][1].json.data.text = Null /\ sent[c][1].json.data.mediaMeta = Null
    /\ sent[c][1].json.data.mediaUrl = Str(<<"/", "f">>)
    /\ messages[1].text = Null /\ messages[1].media_meta = Null

\* two distinct registered connections of one user to one conversation
Tabs(c, d) ==
  /\ c # d
  /\ InRegistry(c) /\ InRegistry(d)
  /\ conn[c].uid = conn[d].uid
  /\ conn[c].conversationId = conn[d].conversationId

\* the number of calls of send on the socket of c
Calls(c) == Len(sent[c])

\* C17: records are told apart by identity. While one user holds two registered
\* connections to a conversation, a broadcast to the conversation calls each of
\* them once; registering a connection removes no record; the close of one of
\* them removes exactly its record, the other stays registered, and a later
\* broadcast still calls the other once and the closed one not at all.
C17_IdentityNotContent ==
  [][/\ \A c, d \in Conns : \A r \in Reqs :
          (/\ Tabs(c, d) /\ BroadcastStep(r)
           /\ req[r].body.conversationId = conn[c].conversationId) =>
            /\ Calls(c)' = Calls(c) + 1
            /\ Calls(d)' = Calls(d) + 1
     /\ \A c, d \in Conns :
          (InRegistry(c) /\ ~InRegistry(d) /\ InRegistry(d)') => InRegistry(c)'
     /\ \A c, d \in Conns :
          (Tabs(c, d) /\ TeardownStep(c)) =>
            /\ wsClients' = Without(wsClients, c)
            /\ Len(wsClients') = Len(wsClients) - 1
            /\ ~InRegistry(c)'
            /\ InRegistry(d)'
     /\ \A c, d \in Conns : \A r \in Reqs :
          (/\ c # d /\ InRegistry(d) /\ ~InRegistry(c)
           /\ conn[c].closeEvents >= 1
           /\ conn[c].uid = conn[d].uid
           /\ conn[c].conversationId = conn[d].conversationId
           /\ BroadcastStep(r)
           /\ req[r].body.conversationId = conn[d].conversationId) =>
            /\ Calls(d)' = Calls(d) + 1
            /\ Calls(c)' = Calls(c)]_vars

\* two connections of u1 to c1 both received a first message; one was closed and
\* removed, and the other received a second message alone
C17_Witness ==
  \E c, d \in Conns :
    /\ c # d
    /\ conn[c].uid = "u1" /\ conn[d].uid = "u1"
    /\ conn[c].conversationId = "c1" /\ conn[d].conversationId = "c1"
    /\ conn[c].closeEvents >= 1 /\ ~InRegistry(c) /\ InRegistry(d)
    /\ Calls(c) = 1 /\ Calls(d) = 2
    /\ sent[c][1].json.data.id = sent[d][1].json.data.id

\* the attempt of connection c has begun
Attempted(c) == conn[c].pc # "idle"
\* the two outcomes of the handshake
Registered(c) == InRegistry(c)
Rejected(c) == conn[c].transport = "closed"

RecordsOf(conversationId) ==
  {c \in Conns : InRegistry(c) /\ conn[c].conversationId = conversationId}

\* the sockets on which send is called in this step
Invoked == {c \in Conns : sent'[c] # sent[c]}

\* C19: a broadcast pass runs on the registry as it is when the pass starts. The
\* pass neither adds nor removes a record; the sockets it calls are exactly the
\* records of the message's conversation at that moment; and no other step ever
\* calls a socket, so a connection registered after the pass never receives the
\* message.
C19_SnapshotNoReplay ==
  [][/\ \A r \in Reqs : BroadcastStep(r) =>
          /\ wsClients' = wsClients
          /\ Invoked = RecordsOf(req[r].body.conversationId)
     /\ \A c \in Invoked :
          \E r \in Reqs :
            /\ BroadcastStep(r)
            /\ InRegistry(c)
            /\ Len(sent'[c]) = Len(sent[c]) + 1
            /\ SubSeq(sent'[c], 1, Len(sent[c])) = sent[c]
            /\ sent'[c][Len(sent'[c])].json.data.id = req[r].messageId]_vars

\* a connection registered for c1 after the pass of a message of c1 was never
\* called, beside an earlier one that received the message
C19_Witness ==
  \E c, d \in Conns : \E r \in Reqs :
    /\ c # d
    /\ req[r].pc = "done" /\ req[r].reply.ok /\ req[r].body.conversationId = "c1"
    /\ InRegistry(c) /\ InRegistry(d)
    /\ conn[c].conversationId = "c1" /\ conn[d].conversationId = "c1"
    /\ conn[d].transport = "open"
    /\ Len(CallsFor(sent[c], req[r].messageId)) = 1
    /\ sent[d] = <<>>

\* C20: every record of the registry carries a uid that is one of the two
\* participants of the record's conversationId, and every event passed to a
\* socket is of a conversation of which the connection's authenticated user is a
\* participant.
C20_OnlyParticipantsRegistered ==
  /\ \A i \in DOMAIN wsClients :
       \E conversation \in Conversations :
         /\ conversation.id = conn[wsClients[i]].conversationId
         /\ conn[wsClients[i]].uid \in {conversation.user_a_id, conversation.user_b_id}
  /\ \A c \in Conns : \A i \in DOMAIN sent[c] :
       \E conversation \in Conversations :
         /\ conversation.id = sent[c][i].json.data.conversationId
         /\ conn[c].uid \in {conversation.user_a_id, conversation.user_b_id}

\* u3 is registered for c2 and received a message of c2, while an attempt of u3
\* on c1 was turned away
C20_Witness ==
  \E c, d \in Conns :
    /\ InRegistry(c) /\ conn[c].uid = "u3" /\ conn[c].conversationId = "c2"
    /\ Len(sent[c]) = 1 /\ sent[c][1].json.data.conversationId = "c2"
    /\ conn[d].pc = "rejected" /\ ~InRegistry(d)
====
